---- MODULE Spec2Model ----
(***************************************************************************)
(* State-machine model of OpCNNPixelClassification, the top-level operator *)
(* of ilastik's CNN pixel classification applet                             *)
(* (ilastik/applets/cnnPixelClassification/opCNNPixelClassification.py).   *)
(*                                                                         *)
(* The operator is written against the lazyflow dataflow library.  The     *)
(* operations of the operator itself (addLane, removeLane,                 *)
(* _checkConstraints, handleInputReady, setupCaches, importLabels,         *)
(* _updateNumClasses and the slot wiring of __init__) are translated from  *)
(* its source.  The library primitives they call (multi-slot               *)
(* insert/remove/resize, the value cache, the blocked array cache, the     *)
(* trainer and the predictor) are not part of the repository; they are     *)
(* modelled from the design document and are marked as such where they     *)
(* are defined.                                                            *)
(*                                                                         *)
(* Lane indices are 0-based as in the source; sequences are 1-based, so    *)
(* lane index i is element i+1 of a multi-slot.                            *)
(***************************************************************************)
EXTENDS Integers, Sequences, FiniteSets, TLC

\* ------------------------------------------------------------------ bounds

\* Number of lanes that are ever added (caps the lane identity counter).
MaxAdds == 4

\* ------------------------------------------------------------------ values

\* A sub-slot without an image, and a slot without a value.  A slot that
\* has the value n holds << n >>.
NotReady == << >>
Unset == << >>

OK == "ok"
AssertionError == "AssertionError"
IndexError == "IndexError"
DatasetConstraintError == "DatasetConstraintError"

\* Tagged images: the axis keys in axistags order, each with its extent.
\* All carry a channel axis, as the images handed to the applet do.
ImgYXC1 == << <<"y", 4>>, <<"x", 4>>, <<"c", 1>> >>
ImgYXC3 == << <<"y", 4>>, <<"x", 4>>, <<"c", 3>> >>
ImgTYXC1 == << <<"t", 2>>, <<"y", 4>>, <<"x", 4>>, <<"c", 1>> >>
ImgZYXC1 == << <<"z", 2>>, <<"y", 4>>, <<"x", 4>>, <<"c", 1>> >>

Images == {ImgYXC1, ImgYXC3, ImgTYXC1, ImgZYXC1}

\* Bookmark lists a GUI may store in a lane's Bookmarks slot.
BookmarkValues == { << >>, << "bm" >> }

\* Voxels of a lane's label volume (the model's label volumes are tiny).
NumVoxels == 3
Voxels == 1 .. NumVoxels

\* The label store keeps its voxels in blocks of this many voxels.
VoxelsPerBlock == 2

\* The index of the block that holds voxel v.
BlockOf(v) == ((v - 1) \div VoxelsPerBlock) + 1

Blocks == { BlockOf(v) : v \in Voxels }

\* The label volume of a lane nobody has labelled yet.
EmptyVolume == [v \in Voxels |-> 0]

\* No operation has begun without returning.
Idle ==
    [notify |-> [pending |-> << >>]]

\* Cache contents: nothing stored, and no read observed.
Nothing == [kind |-> "unset"]
NoRead == [lane |-> 0, value |-> Nothing, edited |-> FALSE]

\* ------------------------------------------------------------------ state

VARIABLES
    InputImages,                    \* level-1 input: <<[lane, index, image]>>
    LabelInputs,                    \* level-1 input: <<[lane, shape]>>
    Bookmarks,                      \* level-1 output: <<[lane, value]>>
    LabelImages,                    \* level-1 output: <<[lane, data]>>
    NonzeroLabelBlocks,             \* level-1 output: <<lane>>
    PredictionProbabilities,        \* level-1 output: <<lane>>
    CachedPredictionProbabilities,  \* level-1 output: <<[lane, value, dirty]>>
    PredictionProbabilityChannels,  \* level-2 output: <<lane>>
    nextLane,                       \* identity given to the next lane added
    FreezePredictions,              \* input slot, bool
    LabelNames,                     \* output slot: list of label names
    LabelColors,                    \* output slot: list of colors
    PmapColors,                     \* output slot: list of colors
    NumClasses,                     \* output slot: Unset or a number
    opTrain_MaxLabel,               \* opTrain.MaxLabel: Unset or a number
    opPredictionPipeline_NumClasses,\* opPredictionPipeline.NumClasses
    classifier_cache,               \* OpValueCache: [value, dirty]
    numImports,                     \* observer: importLabels calls so far
    inFlight,                       \* the insertSlot / removeSlot request
                                    \* that has begun and its pending calls
    frozenRead,                     \* observer: the cached prediction read
                                    \* last taken since predictions froze,
                                    \* and whether labels were edited since
    editedWhileFrozen,              \* observer: a label was edited while
                                    \* frozen and no fresh read followed
    last                            \* the last call and its outcome

\* InputImages entry: lane is the identity of the lane, index the position
\* captured by handleNewInputImage when the sub-slot was inserted, image
\* the tagged image or NotReady.
\* LabelImages entry: data is the lane's label volume (voxel -> label).
\* CachedPredictionProbabilities entry: the state of the lane's
\* prediction_cache_gui, value being the stored block or Unset.

laneVars == << InputImages, LabelInputs, Bookmarks, LabelImages,
               NonzeroLabelBlocks, PredictionProbabilities,
               CachedPredictionProbabilities, PredictionProbabilityChannels,
               nextLane >>

nameVars == << LabelNames, LabelColors, PmapColors, NumClasses,
               opTrain_MaxLabel, opPredictionPipeline_NumClasses >>

flagVars ==
    << FreezePredictions, frozenRead, editedWhileFrozen, numImports, inFlight >>

vars == << laneVars, nameVars, flagVars, classifier_cache, last >>

\* ------------------------------------------------- multi-slot primitives

InsertAt(s, p, e) == SubSeq(s, 1, p - 1) \o << e >> \o SubSeq(s, p, Len(s))

RemoveAt(s, p) == SubSeq(s, 1, p - 1) \o SubSeq(s, p + 1, Len(s))

\* Slot.insertSlot(position, finalsize): inserts one sub-slot unless the
\* slot already has the final size.
insertSlot(s, position, finalsize, e) ==
    IF Len(s) >= finalsize THEN s ELSE InsertAt(s, position + 1, e)

\* Slot.removeSlot(position, finalsize) raises: the slot is longer than
\* the final size and has no sub-slot at the position.
removeSlotRaises(s, position, finalsize) ==
    Len(s) > finalsize /\ position >= Len(s)

\* Slot.removeSlot(position, finalsize): removes one sub-slot unless the
\* slot already has the final size (or the call raises).
removeSlot(s, position, finalsize) ==
    IF Len(s) <= finalsize \/ position >= Len(s) THEN s
    ELSE RemoveAt(s, position + 1)

RECURSIVE removeSlots(_, _, _)
\* slot.removeSlot(position, finalsize) on a slot whose removals are
\* notified back to it with the same arguments: the sub-slot at the
\* position is removed again and again, until the slot has the final size
\* or has no sub-slot at the position.
removeSlots(s, position, finalsize) ==
    IF removeSlot(s, position, finalsize) = s THEN s
    ELSE removeSlots(removeSlot(s, position, finalsize), position, finalsize)

\* The repeated removal ends with a call that raises.
removeSlotsRaise(s, position, finalsize) ==
    removeSlotRaises(removeSlots(s, position, finalsize), position, finalsize)

\* Slot.resize(size): appends fresh sub-slots or drops trailing ones.
resize(s, size, e) ==
    IF size >= Len(s)
    THEN s \o [i \in 1 .. (size - Len(s)) |-> e]
    ELSE SubSeq(s, 1, size)

Lanes(s) == [i \in 1 .. Len(s) |-> s[i].lane]

\* ------------------------------------------------------- tagged shapes

\* meta.getTaggedShape(): the ordered (axis key, extent) pairs of an image.
getTaggedShape(img) == img

HasKey(ts, k) == \E i \in 1 .. Len(ts) : ts[i][1] = k

\* tagged_shape[k]
Extent(ts, k) == LET i == CHOOSE j \in 1 .. Len(ts) : ts[j][1] = k IN ts[i][2]

IsT(p) == p[1] = "t"
NotT(p) == ~IsT(p)

\* "if 't' in shape: del shape['t']"
DelT(ts) == SelectSeq(ts, NotT)

ready(entry) == entry.image # NotReady

\* ------------------------------------------------------ _checkConstraints

\* The lane _checkConstraints compares with: the first other ready lane
\* ("for i, slot in enumerate(self.InputImages): ... break"), or the lane
\* itself when there is none.
validLane(images, laneIndex) ==
    LET others == { i \in 1 .. Len(images) :
                       ready(images[i]) /\ i # laneIndex + 1 }
    IN IF others = {} THEN laneIndex + 1
       ELSE CHOOSE i \in others : \A j \in others : i <= j

\* _checkConstraints(laneIndex) on the image multi-slot `images`: the
\* exception it raises, or OK when it returns normally.
checkConstraints(images, laneIndex) ==
    IF laneIndex + 1 \notin 1 .. Len(images) THEN IndexError
    ELSE IF ~ready(images[laneIndex + 1]) THEN OK
    ELSE LET thisLaneTaggedShape ==
                 DelT(getTaggedShape(images[laneIndex + 1].image))
             validShape ==
                 DelT(getTaggedShape(images[validLane(images, laneIndex)].image))
         IN IF Extent(validShape, "c") # Extent(thisLaneTaggedShape, "c")
            THEN DatasetConstraintError
            ELSE IF Len(validShape) # Len(thisLaneTaggedShape)
            THEN DatasetConstraintError
            ELSE OK

\* ------------------------------------------------------------ setupCaches

LabelShapeOf(p) == IF p[1] = "c" THEN << "c", 1 >> ELSE p

\* The label input's shape: the image's shape with the channel extent 1.
LabelShape(img) == [i \in 1 .. Len(img) |-> LabelShapeOf(img[i])]

\* setupCaches(imageIndex), on the image multi-slot `images`.
setupCaches(images, imageIndex) ==
    LET numImages == Len(images)
        resized == resize(LabelInputs, numImages, [lane |-> 0, shape |-> Unset])
    IN [resized EXCEPT ![imageIndex + 1].shape =
                            LabelShape(images[imageIndex + 1].image)]

\* --------------------------------------------------------- lane lifecycle

\* Any change of the trainer's inputs marks the cached classifier and the
\* cached predictions stale (the dirty notification is recorded whether or
\* not predictions are frozen).
\* The notification never reaches the classifier cache.
ClassifierNotInvalidated == classifier_cache

InvalidatedClassifier == [classifier_cache EXCEPT !.dirty = TRUE]

\* The notification never reaches the prediction cache.
EntryNotInvalidated(e) == e

InvalidatedEntry(e) == [e EXCEPT !.dirty = TRUE]

InvalidatedPredictions(cached) ==
    [i \in 1 .. Len(cached) |-> InvalidatedEntry(cached[i])]

\* The index handleNewInputImage captures for the sub-slot it is told of.
handleNewInputImage(position) == position

\* A sub-slot is inserted into InputImages at `position`
\* (handleNewInputImage records the position); the insertSlot callbacks and
\* the graph mirror the insertion in LabelInputs and in the outputs of the
\* per-lane wrappers.
InsertLaneSlots(position, finalsize) ==
    /\ InputImages' = insertSlot(InputImages, position, finalsize,
            [lane |-> nextLane, index |-> handleNewInputImage(position),
             image |-> NotReady])
    /\ LabelInputs' = insertSlot(LabelInputs, position, finalsize,
            [lane |-> nextLane, shape |-> Unset])
    /\ LabelImages' = insertSlot(LabelImages, position, finalsize,
            [lane |-> nextLane, data |-> EmptyVolume])
    /\ NonzeroLabelBlocks' =
            insertSlot(NonzeroLabelBlocks, position, finalsize, nextLane)
    /\ PredictionProbabilities' =
            insertSlot(PredictionProbabilities, position, finalsize, nextLane)
    /\ CachedPredictionProbabilities' =
            insertSlot(CachedPredictionProbabilities, position, finalsize,
                [lane |-> nextLane, value |-> Nothing, dirty |-> TRUE])
    /\ PredictionProbabilityChannels' =
            insertSlot(PredictionProbabilityChannels, position, finalsize,
                nextLane)

\* InputImages.removeSlot(position, finalsize): the removeSlot callbacks
\* pass each removal on to LabelInputs and back with the same position and
\* final size, so that sub-slots are removed at `position` until both have
\* the final size (or none is left at the position); the graph mirrors
\* each removal in the outputs of the per-lane wrappers.  A call that
\* removes nothing notifies nobody.
RemoveLaneSlots(position, finalsize) ==
    /\ InputImages' = removeSlots(InputImages, position, finalsize)
    /\ LabelInputs' = removeSlots(LabelInputs, position, finalsize)
    /\ LabelImages' = removeSlots(LabelImages, position, finalsize)
    /\ NonzeroLabelBlocks' =
            removeSlots(NonzeroLabelBlocks, position, finalsize)
    /\ PredictionProbabilities' =
            removeSlots(PredictionProbabilities, position, finalsize)
    /\ CachedPredictionProbabilities' =
            IF removeSlots(InputImages, position, finalsize) = InputImages
            THEN CachedPredictionProbabilities
            ELSE InvalidatedPredictions(
                    removeSlots(CachedPredictionProbabilities, position,
                                finalsize))
    /\ PredictionProbabilityChannels' =
            removeSlots(PredictionProbabilityChannels, position, finalsize)

\* The record of a call: its outcome, how often it ran the trainer and the
\* classifier factory, whether it was the first prediction read after
\* labels were edited while frozen and predictions were unfrozen
\* (afterFrozenEdits), and whether it repeated, still frozen, a cached read
\* taken before label edits (reread).
CalledRead(op, args, result, trained, factory, afterFrozenEdits, reread) ==
    [op |-> op, args |-> args, result |-> result, trained |-> trained,
     factory |-> factory, afterFrozenEdits |-> afterFrozenEdits,
     reread |-> reread]

Called(op, args, result) == CalledRead(op, args, result, 0, 0, FALSE, FALSE)

\* addLane without its assertion: the slots are resized whatever the index.
addLaneUnchecked(laneIndex) ==
    LET numLanes == Len(InputImages) IN
    /\ nextLane <= MaxAdds
    /\ InsertLaneSlots(numLanes, numLanes + 1)
    /\ Bookmarks' =
           [resize(Bookmarks, numLanes + 1,
                   [lane |-> nextLane, value |-> Unset])
               EXCEPT ![numLanes + 1].value = << >>]
    /\ nextLane' = nextLane + 1
    /\ last' = Called("addLane", << laneIndex >>, OK)
    /\ UNCHANGED << nameVars, flagVars, classifier_cache >>

\* addLane(laneIndex)
addLane(laneIndex) ==
    LET numLanes == Len(InputImages) IN
    IF numLanes # laneIndex
    THEN /\ last' = Called("addLane", << laneIndex >>, AssertionError)
         /\ UNCHANGED << laneVars, nameVars, flagVars,
                         classifier_cache >>
    ELSE /\ nextLane <= MaxAdds
         /\ InsertLaneSlots(numLanes, numLanes + 1)
         /\ Bookmarks' =
                [resize(Bookmarks, numLanes + 1,
                        [lane |-> nextLane, value |-> Unset])
                    EXCEPT ![numLanes + 1].value = << >>]
         /\ nextLane' = nextLane + 1
         /\ last' = Called("addLane", << laneIndex >>, OK)
         /\ UNCHANGED << nameVars, flagVars, classifier_cache >>

\* removeLane(laneIndex, finalLength): InputImages.removeSlot, and then,
\* unless that raised, Bookmarks.removeSlot, which nobody mirrors.
removeLane(laneIndex, finalLength) ==
    LET raised == removeSlotsRaise(InputImages, laneIndex, finalLength) IN
    /\ RemoveLaneSlots(laneIndex, finalLength)
    /\ Bookmarks' = IF raised THEN Bookmarks
                    ELSE removeSlot(Bookmarks, laneIndex, finalLength)
    /\ classifier_cache' =
            IF removeSlots(InputImages, laneIndex, finalLength) = InputImages
            THEN classifier_cache
            ELSE InvalidatedClassifier
    /\ last' = Called("removeLane", << laneIndex, finalLength >>,
                      IF raised \/ removeSlotRaises(Bookmarks, laneIndex,
                                                    finalLength)
                      THEN AssertionError ELSE OK)
    /\ UNCHANGED << nextLane, nameVars, flagVars >>

\* The index handleInputReady passes to _checkConstraints when the
\* sub-slot at position `pos` becomes ready: the one captured at insertion.
handleInputReadyIndex(images, pos) == images[pos + 1].index

\* InputImages[pos] becomes ready with `img` (a connect of the sub-slot):
\* handleInputReady runs _checkConstraints and then setupCaches.  The
\* exception of a failed check propagates out of the connect, which leaves
\* the sub-slot disconnected.
AssignImage(pos, img) ==
    /\ pos < Len(InputImages)
    /\ ~ready(InputImages[pos + 1])
    /\ LET images == [InputImages EXCEPT ![pos + 1].image = img]
            result == checkConstraints(images,
                                       handleInputReadyIndex(images, pos))
       IN /\ last' = Called("assignImage", << pos >>, result)
          /\ IF result = OK
             THEN /\ InputImages' = images
                  /\ LabelInputs' = setupCaches(images, pos)
                  /\ classifier_cache' = InvalidatedClassifier
                  /\ CachedPredictionProbabilities' =
                        InvalidatedPredictions(CachedPredictionProbabilities)
             ELSE UNCHANGED << InputImages, LabelInputs, classifier_cache,
                               CachedPredictionProbabilities >>
    /\ UNCHANGED << Bookmarks, LabelImages, NonzeroLabelBlocks,
                    PredictionProbabilities, PredictionProbabilityChannels,
                    nextLane, nameVars, flagVars >>

\* InputImages[pos] is disconnected: the sub-slot and the label input
\* that takes its meta from it are no longer ready.
ClearImage(pos) ==
    /\ pos < Len(InputImages)
    /\ ready(InputImages[pos + 1])
    /\ InputImages' = [InputImages EXCEPT ![pos + 1].image = NotReady]
    /\ LabelInputs' = [LabelInputs EXCEPT ![pos + 1].shape = Unset]
    /\ classifier_cache' = InvalidatedClassifier
    /\ CachedPredictionProbabilities' =
            InvalidatedPredictions(CachedPredictionProbabilities)
    /\ last' = Called("clearImage", << pos >>, OK)
    /\ UNCHANGED << Bookmarks, LabelImages, NonzeroLabelBlocks,
                    PredictionProbabilities, PredictionProbabilityChannels,
                    nextLane, nameVars, flagVars >>

\* An inputResizeHandler that does nothing.
inputResizeHandlerIdle(newsize, s) == s

\* inputResizeHandler(slot, oldsize, newsize) applied to one of the slots
\* it names: resized to 0 when the new size is 0, left alone otherwise.
inputResizeHandler(newsize, s) ==
    IF newsize = 0 THEN resize(s, 0, << >>) ELSE s

\* InputImages.resize(size) to a smaller size, as when the upstream slot
\* shrinks: trailing sub-slots are removed one by one, the removeSlot
\* callbacks and the graph mirror each removal, and inputResizeHandler
\* runs on the resize notification.  (Lanes are appended through addLane.)
resizeInputImages(size) ==
    /\ size < Len(InputImages)
    /\ InputImages' = resize(InputImages, size, << >>)
    /\ LabelInputs' = resize(LabelInputs, size, << >>)
    /\ LabelImages' =
          inputResizeHandler(size, resize(LabelImages, size, << >>))
    /\ NonzeroLabelBlocks' =
          inputResizeHandler(size, resize(NonzeroLabelBlocks, size, << >>))
    /\ PredictionProbabilities' =
          inputResizeHandler(size,
                             resize(PredictionProbabilities, size, << >>))
    /\ CachedPredictionProbabilities' =
          inputResizeHandler(size, InvalidatedPredictions(
              resize(CachedPredictionProbabilities, size, << >>)))
    /\ PredictionProbabilityChannels' =
          resize(PredictionProbabilityChannels, size, << >>)
    /\ Bookmarks' = inputResizeHandler(size, Bookmarks)
    /\ classifier_cache' = InvalidatedClassifier
    /\ last' = Called("resizeInputImages", << size >>, OK)
    /\ UNCHANGED << nextLane, nameVars, flagVars >>

\* Bookmarks[pos].setValue(value), as the GUI and the serializer do.
SetBookmarks(pos, value) ==
    /\ pos < Len(Bookmarks)
    /\ Bookmarks[pos + 1].value # value
    /\ Bookmarks' = [Bookmarks EXCEPT ![pos + 1].value = value]
    /\ last' = Called("setBookmarks", << pos >>, OK)
    /\ UNCHANGED << InputImages, LabelInputs, LabelImages, NonzeroLabelBlocks,
                    PredictionProbabilities, CachedPredictionProbabilities,
                    PredictionProbabilityChannels, nextLane, nameVars,
                    flagVars, classifier_cache >>

\* ------------------------------------------------------------ label edits

\* opLabelArray.eraser.setValue(100)
eraser == 100

\* Values written into the label store: no label, two class ids, the eraser.
StoreValues == {0, 1, 2, eraser}

\* self.nonzeroBlocks.connect(self.opLabelArray.nonzeroBlocks): the blocks
\* of a label store that hold a label.
nonzeroBlocks(data) ==
    { b \in Blocks : \E v \in Voxels : BlockOf(v) = b /\ data[v] # 0 }

\* Label values a user paints in the cache specification.
PaintValues == {1, eraser}

\* A label store that keeps the eraser value in the voxel it is written to.
WriteLabelStoresEraser(data, v, value) == [data EXCEPT ![v] = value]

\* The label store after one voxel is written: the eraser value unsets
\* the voxel, a class id is stored.
WriteLabel(data, v, value) ==
    [data EXCEPT ![v] = IF value = eraser THEN 0 ELSE value]

\* LabelInputs[pos][v] = value: one voxel of the lane is painted.  The
\* write reaches the trainer through opLabelPipeline.Output and
\* nonzeroBlocks, and the predictions through the classifier.
setLabel(pos, v, value) ==
    /\ pos < Len(LabelImages)
    /\ ready(InputImages[pos + 1])
    /\ LabelImages' =
          [LabelImages EXCEPT ![pos + 1].data = WriteLabel(@, v, value)]
    /\ classifier_cache' = InvalidatedClassifier
    /\ CachedPredictionProbabilities' =
          InvalidatedPredictions(CachedPredictionProbabilities)
    /\ editedWhileFrozen' = (editedWhileFrozen \/ FreezePredictions)
    /\ frozenRead' = IF frozenRead = NoRead THEN NoRead
                     ELSE [frozenRead EXCEPT !.edited = TRUE]
    /\ last' = Called("setLabel", << pos, v, value >>, OK)
    /\ UNCHANGED << InputImages, LabelInputs, Bookmarks, NonzeroLabelBlocks,
                    PredictionProbabilities, PredictionProbabilityChannels,
                    nextLane, nameVars, FreezePredictions, numImports, inFlight >>

\* Ids of label classes in the store specification.
ClassIds == {1, 2}

\* opLabelArray.mergeLabels(from_label, into_label): every voxel of the
\* store that holds from_label is rewritten to into_label.
mergedData(data, from_label, into_label) ==
    [v \in Voxels |-> IF data[v] = from_label THEN into_label ELSE data[v]]

\* opLabelArray.clearLabel(label_value): every voxel of the store that
\* holds label_value is rewritten to unset.
clearedData(data, label_value) ==
    [v \in Voxels |-> IF data[v] = label_value THEN 0 ELSE data[v]]

\* What a change of any lane's label store does outside the stores: the
\* cached classifier and predictions are marked stale.
LabelsChanged ==
    /\ classifier_cache' = InvalidatedClassifier
    /\ CachedPredictionProbabilities' =
          InvalidatedPredictions(CachedPredictionProbabilities)
    /\ editedWhileFrozen' = (editedWhileFrozen \/ FreezePredictions)
    /\ frozenRead' = IF frozenRead = NoRead THEN NoRead
                     ELSE [frozenRead EXCEPT !.edited = TRUE]
    /\ UNCHANGED << InputImages, LabelInputs, Bookmarks, NonzeroLabelBlocks,
                    PredictionProbabilities, PredictionProbabilityChannels,
                    nextLane, nameVars, FreezePredictions, numImports, inFlight >>

\* The loop over range(len(self.InputImages)) has called the label store of
\* numLanes lanes: with no lane no store is called and nothing is
\* notified.
LabelStoresCalled(numLanes) ==
    IF numLanes = 0
    THEN UNCHANGED << classifier_cache, CachedPredictionProbabilities,
                      editedWhileFrozen, frozenRead, InputImages,
                      LabelInputs, Bookmarks, NonzeroLabelBlocks,
                      PredictionProbabilities,
                      PredictionProbabilityChannels, nextLane, nameVars,
                      FreezePredictions, numImports, inFlight >>
    ELSE LabelsChanged

\* mergeLabels whose loop stops after the first lane.
mergeLabelsFirstLane(from_label, into_label) ==
    /\ LabelImages' =
          [laneIndex \in 1 .. Len(LabelImages) |->
              IF laneIndex > 1 THEN LabelImages[laneIndex]
              ELSE [LabelImages[laneIndex] EXCEPT
                      !.data = mergedData(@, from_label, into_label)]]
    /\ LabelsChanged
    /\ last' = Called("mergeLabels", << from_label, into_label >>, OK)

\* mergeLabels that hands the store the row of the label in the label list
\* (counted from 0) where the store expects the label id (counted from 1):
\* a merge of the first label rewrites the voxels holding 0, the unset
\* ones.
mergeLabelsZeroBased(from_label, into_label) ==
    /\ LabelImages' =
          [laneIndex \in 1 .. Len(InputImages) |->
              [LabelImages[laneIndex] EXCEPT
                  !.data = mergedData(@, from_label - 1, into_label)]]
    /\ LabelStoresCalled(Len(InputImages))
    /\ last' = Called("mergeLabels", << from_label, into_label >>, OK)

\* mergeLabels(from_label, into_label): the merge is applied to the label
\* store of every lane.
mergeLabels(from_label, into_label) ==
    /\ LabelImages' =
          [laneIndex \in 1 .. Len(InputImages) |->
              [LabelImages[laneIndex] EXCEPT
                  !.data = mergedData(@, from_label, into_label)]]
    /\ LabelStoresCalled(Len(InputImages))
    /\ last' = Called("mergeLabels", << from_label, into_label >>, OK)

\* clearLabel whose loop stops after the first lane.
clearLabelFirstLane(label_value) ==
    /\ LabelImages' =
          [laneIndex \in 1 .. Len(LabelImages) |->
              IF laneIndex > 1 THEN LabelImages[laneIndex]
              ELSE [LabelImages[laneIndex] EXCEPT
                      !.data = clearedData(@, label_value)]]
    /\ LabelsChanged
    /\ last' = Called("clearLabel", << label_value >>, OK)

\* clearLabel(label_value): the label is cleared in the label store of
\* every lane.
clearLabel(label_value) ==
    /\ LabelImages' =
          [laneIndex \in 1 .. Len(InputImages) |->
              [LabelImages[laneIndex] EXCEPT
                  !.data = clearedData(@, label_value)]]
    /\ LabelStoresCalled(Len(InputImages))
    /\ last' = Called("clearLabel", << label_value >>, OK)

\* FreezePredictions.setValue(value)
SetFreeze(value) ==
    /\ value # FreezePredictions
    /\ FreezePredictions' = value
    /\ frozenRead' = NoRead
    /\ last' = Called("setFreeze", << value >>, OK)
    /\ UNCHANGED << laneVars, nameVars, editedWhileFrozen, numImports, inFlight,
                    classifier_cache >>

\* ------------------------------------------------------ _updateNumClasses

\* A class count that is off by one.
updateNumClassesOffByOne(names) == Len(names) + 1

\* numClasses = len(self.LabelNames.value)
updateNumClasses(names) == Len(names)

\* The prediction cache after its input changed shape: blocks of the
\* former shape are dropped.
ReshapedPredictions(cached) ==
    [i \in 1 .. Len(cached) |->
        [lane |-> cached[i].lane, value |-> Nothing, dirty |-> TRUE]]

\* LabelNames.setValue(names) and the _updateNumClasses it triggers:
\* the primed values of the three class-count slots and of the caches.
\* A changed MaxLabel marks the classifier stale; a changed NumClasses
\* changes the channel count of the predictions.
LabelNamesSet(names, cached, classifier) ==
    LET numClasses == updateNumClasses(names) IN
    /\ LabelNames' = names
    /\ opTrain_MaxLabel' = << numClasses >>
    /\ opPredictionPipeline_NumClasses' = << numClasses >>
    /\ NumClasses' = << numClasses >>
    /\ classifier_cache' =
          IF opTrain_MaxLabel = << numClasses >> THEN classifier
          ELSE InvalidatedClassifier
    /\ CachedPredictionProbabilities' =
          IF opTrain_MaxLabel = << numClasses >> THEN cached
          ELSE ReshapedPredictions(cached)

\* Names the GUI gives to label classes.
UserNames == { << >>, << "a" >>, << "a", "b" >> }

\* LabelNames.setValue(names), as the GUI and the serializer do.  Setting
\* the value a slot already has notifies nobody.  The prediction outputs
\* change shape with the class count, so an earlier read is no longer one
\* to compare with.
SetLabelNames(names) ==
    /\ names # LabelNames
    /\ LabelNamesSet(names, CachedPredictionProbabilities, classifier_cache)
    /\ frozenRead' = NoRead
    /\ last' = Called("setLabelNames", << Len(names) >>, OK)
    /\ UNCHANGED << InputImages, LabelInputs, Bookmarks, LabelImages,
                    NonzeroLabelBlocks, PredictionProbabilities,
                    PredictionProbabilityChannels, nextLane, LabelColors,
                    PmapColors, FreezePredictions, editedWhileFrozen,
                    numImports, inFlight >>

\* Colors the GUI gives to label classes.
UserColors == { << >>, << 101, 102 >> }

\* LabelColors.setValue(colors)
SetLabelColors(colors) ==
    /\ colors # LabelColors
    /\ LabelColors' = colors
    /\ last' = Called("setLabelColors", << Len(colors) >>, OK)
    /\ UNCHANGED << laneVars, LabelNames, PmapColors, NumClasses,
                    opTrain_MaxLabel, opPredictionPipeline_NumClasses,
                    flagVars, classifier_cache >>

\* PmapColors.setValue(colors)
SetPmapColors(colors) ==
    /\ colors # PmapColors
    /\ PmapColors' = colors
    /\ last' = Called("setPmapColors", << Len(colors) >>, OK)
    /\ UNCHANGED << laneVars, LabelNames, LabelColors, NumClasses,
                    opTrain_MaxLabel, opPredictionPipeline_NumClasses,
                    flagVars, classifier_cache >>

\* ------------------------------------------------------------ importLabels

\* No more volumes than this are imported.
MaxImports == 2

\* Label ids found in imported volumes.
ImportLabels == {0, 2, 5, 18}

\* External label volumes: one id at the first voxel, and the other voxels
\* either unlabeled or of class 1.
ImportVolumes ==
    { [v \in Voxels |-> IF v = 1 THEN k ELSE m] :
        k \in ImportLabels, m \in {0, 1} }

RECURSIVE MaxUpTo(_, _)
\* The largest value among the first n voxels of a volume.
MaxUpTo(vol, n) ==
    IF n = 0 THEN 0
    ELSE IF vol[n] > MaxUpTo(vol, n - 1) THEN vol[n]
         ELSE MaxUpTo(vol, n - 1)

\* opLabelArray.ingestData(slot): the label store after the volume is
\* written into it, zero voxels of the volume leaving the store as it is.
ingestedData(data, vol) ==
    [v \in Voxels |-> IF vol[v] = 0 THEN data[v]
                      ELSE WriteLabel(data, v, vol[v])[v]]

\* opLabelArray.ingestData(slot) returns the largest label of the volume.
ingestData(vol) == MaxUpTo(vol, NumVoxels)

DecimalDigits == << "0", "1", "2", "3", "4", "5", "6", "7", "8", "9" >>

RECURSIVE format(_)
\* "{}".format(x) for a natural number x: its decimal digits.
format(x) ==
    IF x < 10 THEN DecimalDigits[x + 1]
    ELSE format(x \div 10) \o DecimalDigits[(x % 10) + 1]

\* Names synthesized one position too low.
new_namesFromOldMax(old_max, new_max) ==
    [i \in 1 .. (new_max - old_max) |-> "Label " \o format(old_max + i - 1)]

\* ["Label {}".format(x) for x in range(old_max+1, new_max+1)]
new_names(old_max, new_max) ==
    [i \in 1 .. (new_max - old_max) |-> "Label " \o format(old_max + i)]

\* volumina.colortables.default16_new: a transparent entry and sixteen
\* colors.
default16_new == [i \in 1 .. 17 |-> i - 1]

\* s[a:b] of a Python list, with 0 <= a.
Slice(s, a, b) ==
    LET hi == IF b < Len(s) THEN b ELSE Len(s)
    IN IF a >= hi THEN << >> ELSE SubSeq(s, a + 1, hi)

\* importLabels(laneIndex, slot): the volume is ingested into the lane's
\* label store; if its largest label exceeds the number of label names,
\* names and colors are added for the gap.
importLabels(laneIndex, vol) ==
    LET new_max == ingestData(vol)
        old_names == LabelNames
        old_max == Len(old_names)
        default_colors == default16_new
        cached == InvalidatedPredictions(CachedPredictionProbabilities)
    IN
    /\ laneIndex < Len(LabelImages)
    /\ ready(InputImages[laneIndex + 1])
    /\ LabelImages' =
          [LabelImages EXCEPT ![laneIndex + 1].data = ingestedData(@, vol)]
    /\ IF new_max > old_max
       THEN /\ LabelNamesSet(old_names \o new_names(old_max, new_max),
                             cached, InvalidatedClassifier)
            /\ LabelColors' =
                  LabelColors \o Slice(default_colors, old_max, new_max)
            /\ PmapColors' =
                  PmapColors \o Slice(default_colors, old_max, new_max)
       ELSE /\ classifier_cache' = InvalidatedClassifier
            /\ CachedPredictionProbabilities' = cached
            /\ UNCHANGED nameVars
    /\ numImports < MaxImports
    /\ numImports' = numImports + 1
    /\ editedWhileFrozen' = (editedWhileFrozen \/ FreezePredictions)
    /\ frozenRead' = NoRead
    /\ last' = Called("importLabels", << laneIndex, vol >>, OK)
    /\ UNCHANGED << InputImages, LabelInputs, Bookmarks, NonzeroLabelBlocks,
                    PredictionProbabilities, PredictionProbabilityChannels,
                    nextLane, FreezePredictions, inFlight >>

\* ------------------------------------------- training and prediction reads

\* classifier_cache.fixAtCurrent <- FreezePredictions
classifier_cache_fixAtCurrent == FreezePredictions

\* A prediction cache whose fixAtCurrent input is left at its default.
prediction_cache_neverFixed == FALSE

\* prediction_cache_gui.fixAtCurrent <- opPredictionPipeline.FreezePredictions
\*                                    <- FreezePredictions
prediction_cache_fixAtCurrent == FreezePredictions

\* opTrain.Labels <- opLabelPipeline.Output: the label volumes of all lanes.
TrainingLabels == [i \in 1 .. Len(LabelImages) |-> LabelImages[i].data]

\* The "no classifier" sentinel.
NoClassifier == [kind |-> "none"]

\* What the trainer yields: the sentinel when there is no label class, a
\* classifier of the factory trained on the current labels otherwise.
Train ==
    IF opTrain_MaxLabel = << 0 >> THEN NoClassifier
    ELSE [kind |-> "classifier", labels |-> TrainingLabels,
          maxLabel |-> opTrain_MaxLabel[1]]

\* How often one training invokes the classifier factory.
FactoryCalls == IF opTrain_MaxLabel = << 0 >> THEN 0 ELSE 1

\* A read of classifier_cache.Output retrains when the cache is stale and
\* not fixed; otherwise it serves what it holds.
Retrains == ~classifier_cache_fixAtCurrent /\ classifier_cache.dirty

ClassifierValue == IF Retrains THEN Train ELSE classifier_cache.value

ClassifierAfterRead ==
    IF Retrains THEN [value |-> Train, dirty |-> FALSE] ELSE classifier_cache

\* The neutral all-zero probability volume of lane `pos`, with one channel
\* per class.
Zeros(pos) ==
    [kind |-> "zeros", lane |-> InputImages[pos + 1].lane,
     numClasses |-> opPredictionPipeline_NumClasses[1]]

\* The predictor: the neutral all-zero volume when there is no classifier,
\* the classifier's probability maps otherwise.
Predict(clf, pos) ==
    IF clf.kind = "classifier"
    THEN [kind |-> "pmap", classifier |-> clf,
          lane |-> InputImages[pos + 1].lane,
          numClasses |-> opPredictionPipeline_NumClasses[1]]
    ELSE Zeros(pos)

\* The prediction slots of lane `pos` are ready.
Readable(pos) ==
    /\ pos < Len(InputImages)
    /\ ready(InputImages[pos + 1])
    /\ opTrain_MaxLabel # Unset
    /\ opPredictionPipeline_NumClasses # Unset

\* A read of classifier_cache.Output.
ReadClassifier ==
    /\ opTrain_MaxLabel # Unset
    /\ classifier_cache' = ClassifierAfterRead
    /\ last' = CalledRead("readClassifier", << >>, ClassifierValue,
                          IF Retrains THEN 1 ELSE 0,
                          IF Retrains THEN FactoryCalls ELSE 0, FALSE, FALSE)
    /\ UNCHANGED << laneVars, nameVars, flagVars >>

\* A read of PredictionProbabilities[pos], the path without a cache.
ReadPrediction(pos) ==
    /\ Readable(pos)
    /\ classifier_cache' = ClassifierAfterRead
    /\ editedWhileFrozen' = (editedWhileFrozen /\ FreezePredictions)
    /\ last' = CalledRead("readPrediction", << pos >>,
                          Predict(ClassifierValue, pos),
                          IF Retrains THEN 1 ELSE 0,
                          IF Retrains THEN FactoryCalls ELSE 0,
                          editedWhileFrozen /\ ~FreezePredictions, FALSE)
    /\ UNCHANGED << laneVars, nameVars, FreezePredictions, frozenRead,
                    numImports, inFlight >>

\* A read of CachedPredictionProbabilities[pos], through
\* prediction_cache_gui: a fixed cache serves what it holds (zeros for a
\* block it never computed), an open one recomputes a stale or missing
\* block from the cached classifier.
ReadCachedPrediction(pos) ==
    /\ Readable(pos)
    /\ LET entry == CachedPredictionProbabilities[pos + 1]
           recompute == /\ ~prediction_cache_fixAtCurrent
                        /\ (entry.dirty \/ entry.value = Nothing)
           result == IF recompute THEN Predict(ClassifierValue, pos)
                     ELSE IF entry.value = Nothing THEN Zeros(pos)
                     ELSE entry.value
       IN /\ CachedPredictionProbabilities' =
                IF recompute
                THEN [CachedPredictionProbabilities EXCEPT ![pos + 1] =
                        [lane |-> entry.lane, value |-> result,
                         dirty |-> FALSE]]
                ELSE CachedPredictionProbabilities
          /\ classifier_cache' =
                IF recompute THEN ClassifierAfterRead ELSE classifier_cache
          /\ frozenRead' =
                IF FreezePredictions
                THEN [lane |-> entry.lane, value |-> result,
                      edited |-> FALSE]
                ELSE NoRead
          /\ editedWhileFrozen' = (editedWhileFrozen /\ FreezePredictions)
          /\ last' = CalledRead("readCachedPrediction", << pos >>, result,
                                IF recompute /\ Retrains THEN 1 ELSE 0,
                                IF recompute /\ Retrains
                                THEN FactoryCalls ELSE 0,
                                editedWhileFrozen /\ ~FreezePredictions,
                                /\ FreezePredictions
                                /\ frozenRead.lane = entry.lane
                                /\ frozenRead.edited)
    /\ UNCHANGED << InputImages, LabelInputs, Bookmarks, LabelImages,
                    NonzeroLabelBlocks, PredictionProbabilities,
                    PredictionProbabilityChannels, nextLane, nameVars,
                    FreezePredictions, numImports, inFlight >>

\* ------------------------------------ insert and remove notifications

\* A call of insertSlot or removeSlot on one of the two multi-level input
\* slots.
SlotCall(slot, op, position, finalsize) ==
    [slot |-> slot, op |-> op, position |-> position, finalsize |-> finalsize]

\* The other one of the two slots: multiInputs holds InputImages and
\* LabelInputs, and each notifies the other.
OtherSlot(slot) ==
    IF slot = "InputImages" THEN "LabelInputs" ELSE "InputImages"

\* Callbacks that call nobody.
notifyNobody(call) == << >>

\* The calls a change of a slot causes.  The callbacks subscribed with
\* notifyInserted and notifyRemoved call the same operation on the other
\* slot; LabelInputs is connected to InputImages, so that a change of
\* InputImages is also passed on to it by the connection.
notifyCallbacks(call) ==
    IF call.slot = "InputImages"
    THEN << [call EXCEPT !.slot = "LabelInputs"],
            [call EXCEPT !.slot = "LabelInputs"] >>
    ELSE << [call EXCEPT !.slot = "InputImages"] >>

\* The length of the slot a call is made on.
SlotLen(slot) ==
    IF slot = "InputImages" THEN Len(InputImages) ELSE Len(LabelInputs)

\* The call raises: Slot.removeSlot finds the slot longer than the final
\* size and no sub-slot at the position.
Raises(call) ==
    /\ call.op = "removeSlot"
    /\ SlotLen(call.slot) > call.finalsize
    /\ call.position >= SlotLen(call.slot)

\* The call changes its slot by one sub-slot: Slot.insertSlot and
\* Slot.removeSlot return at once when the slot has the final size
\* already.
Effective(call) ==
    IF call.op = "insertSlot" THEN SlotLen(call.slot) < call.finalsize
    ELSE SlotLen(call.slot) > call.finalsize /\ ~Raises(call)

\* InputImages changes by one sub-slot, and the outputs of the per-lane
\* wrappers follow through the graph.
InputImagesChanged(call, lane) ==
    LET position == call.position
        finalsize == call.finalsize
    IN
    IF call.op = "insertSlot"
    THEN /\ InputImages' = insertSlot(InputImages, position, finalsize,
                [lane |-> lane, index |-> handleNewInputImage(position),
                 image |-> NotReady])
         /\ LabelImages' = insertSlot(LabelImages, position, finalsize,
                [lane |-> lane, data |-> EmptyVolume])
         /\ NonzeroLabelBlocks' =
                insertSlot(NonzeroLabelBlocks, position, finalsize, lane)
         /\ PredictionProbabilities' =
                insertSlot(PredictionProbabilities, position, finalsize, lane)
         /\ CachedPredictionProbabilities' =
                insertSlot(CachedPredictionProbabilities, position, finalsize,
                    [lane |-> lane, value |-> Nothing, dirty |-> TRUE])
         /\ PredictionProbabilityChannels' =
                insertSlot(PredictionProbabilityChannels, position,
                           finalsize, lane)
         /\ UNCHANGED classifier_cache
    ELSE /\ InputImages' = removeSlot(InputImages, position, finalsize)
         /\ LabelImages' = removeSlot(LabelImages, position, finalsize)
         /\ NonzeroLabelBlocks' =
                removeSlot(NonzeroLabelBlocks, position, finalsize)
         /\ PredictionProbabilities' =
                removeSlot(PredictionProbabilities, position, finalsize)
         /\ CachedPredictionProbabilities' = InvalidatedPredictions(
                removeSlot(CachedPredictionProbabilities, position,
                           finalsize))
         /\ PredictionProbabilityChannels' =
                removeSlot(PredictionProbabilityChannels, position,
                           finalsize)
         /\ classifier_cache' = InvalidatedClassifier

\* LabelInputs changes by one sub-slot.
LabelInputsChanged(call, lane) ==
    LabelInputs' =
       IF call.op = "insertSlot"
       THEN insertSlot(LabelInputs, call.position, call.finalsize,
                       [lane |-> lane, shape |-> Unset])
       ELSE removeSlot(LabelInputs, call.position, call.finalsize)

\* slot.insertSlot(position, finalsize) or slot.removeSlot(position,
\* finalsize) is called from outside, with any final size: an insertion
\* at a position the slot has or at its end, a removal at any position.
\* before holds the two slots at the call, changes counts the sub-slots
\* inserted or removed per slot, fired the calls made.  The sub-slots an
\* insertion makes are numbered from lane on.
SlotRequest(slot, op, position, finalsize) ==
    LET inserted == IF op = "insertSlot" /\ finalsize > SlotLen(slot)
                    THEN finalsize - SlotLen(slot) ELSE 0
    IN
    /\ inFlight.notify.pending = << >>
    /\ Len(InputImages) = Len(LabelInputs)
    /\ op = "insertSlot" =>
          (position <= SlotLen(slot) /\ nextLane + inserted <= MaxAdds + 1)
    /\ inFlight' =
          [inFlight EXCEPT
             !.notify = [pending |-> << SlotCall(slot, op, position,
                                                 finalsize) >>,
                         request |-> SlotCall(slot, op, position, finalsize),
                         lane |-> nextLane,
                         before |-> [InputImages |-> InputImages,
                                     LabelInputs |-> LabelInputs],
                         changes |-> [InputImages |-> 0, LabelInputs |-> 0],
                         fired |-> 0]]
    /\ nextLane' = nextLane + inserted
    /\ UNCHANGED << InputImages, LabelInputs, Bookmarks, LabelImages,
                    NonzeroLabelBlocks, PredictionProbabilities,
                    CachedPredictionProbabilities,
                    PredictionProbabilityChannels, nameVars,
                    FreezePredictions, frozenRead, editedWhileFrozen,
                    numImports, classifier_cache, last >>

\* The innermost call that has not run yet runs: when it changes its slot,
\* the calls its notifications cause come next, before the calls that
\* were pending.  A call that raises ends the request with the calls that
\* were pending; when no call is left the request returns.
SlotCallRuns ==
    LET n == inFlight.notify
        call == Head(n.pending)
        lane == n.lane + n.changes[call.slot]
        caused == IF Effective(call) THEN notifyCallbacks(call) ELSE << >>
        pending == IF Raises(call) THEN << >> ELSE caused \o Tail(n.pending)
    IN /\ n.pending # << >>
       /\ IF Effective(call) /\ call.slot = "InputImages"
          THEN InputImagesChanged(call, lane) /\ UNCHANGED LabelInputs
          ELSE IF Effective(call)
          THEN /\ LabelInputsChanged(call, lane)
               /\ UNCHANGED << InputImages, LabelImages, NonzeroLabelBlocks,
                               PredictionProbabilities,
                               CachedPredictionProbabilities,
                               PredictionProbabilityChannels,
                               classifier_cache >>
          ELSE UNCHANGED << InputImages, LabelInputs, LabelImages,
                            NonzeroLabelBlocks, PredictionProbabilities,
                            CachedPredictionProbabilities,
                            PredictionProbabilityChannels, classifier_cache >>
       /\ inFlight' =
             [inFlight EXCEPT
                !.notify.pending = pending,
                !.notify.fired = @ + 1,
                !.notify.changes =
                    IF Effective(call)
                    THEN [@ EXCEPT ![call.slot] = @ + 1] ELSE @]
       /\ last' = IF pending = << >>
                  THEN Called(n.request.op,
                              << n.request.slot, n.request.position,
                                 n.request.finalsize >>,
                              IF Raises(call) THEN AssertionError ELSE OK)
                  ELSE last
       /\ UNCHANGED << Bookmarks, nextLane, nameVars, FreezePredictions,
                       frozenRead, editedWhileFrozen, numImports >>

\* ----------------------------------------------------------- OpBlockShape

\* Axis orders of the images handed to the block shape operator.
AxisOrders ==
    { << "y", "x", "c" >>, << "x", "y", "c" >>, << "c", "y", "x" >>,
      << "t", "y", "x", "c" >>, << "t", "x", "y", "c" >>,
      << "z", "y", "x", "c" >>, << "y", "x", "c", "t" >>,
      << "t", "z", "y", "x", "c" >> }

\* Tagged images of those axis orders, with a few extents.
ShapeImages ==
    { [i \in 1 .. Len(o) |->
          << o[i], IF o[i] = "c" THEN ch
                   ELSE IF o[i] \in {"x", "y"} THEN xy ELSE 2 >>] :
      o \in AxisOrders, ch \in {1, 3}, xy \in {4, 5} }

\* What ClassifierFactory.value.determineBlockShape([x, y], train) may
\* return: the tile the classifier prefers, one extent for each of the two
\* extents it is given.
Tiles == { << 2, 2 >>, << 2, 3 >>, << 3, 2 >>, << 4, 4 >> }

\* [ tag.key for tag in self.RawImage.meta.axistags ]
axisOrder(img) == [i \in 1 .. Len(img) |-> img[i][1]]

\* setup_train(): (1, *tuple(block_shape), 1), where block_shape is what
\* the factory returned; the shape computed from tagged_shape before is
\* overwritten.
setup_train(img, block_shape) == << 1 >> \o block_shape \o << 1 >>

\* blockDimsX, blockDimsY, blockDimsZ of setup_inference().
blockDimsX(block_shape) ==
    [t |-> << 1, 1 >>,
     z |-> << block_shape[1], block_shape[2] >>,
     y |-> << block_shape[1], block_shape[2] >>,
     x |-> << 1, 1 >>,
     c |-> << 100, 100 >>]

blockDimsY(block_shape) ==
    [t |-> << 1, 1 >>,
     z |-> << block_shape[1], block_shape[2] >>,
     y |-> << 1, 1 >>,
     x |-> << block_shape[1], block_shape[2] >>,
     c |-> << 100, 100 >>]

\* Dimensions for the third shape that are thin along y instead of z.
blockDimsZThinAlongY(block_shape) == blockDimsY(block_shape)

blockDimsZ(block_shape) ==
    [t |-> << 1, 1 >>,
     z |-> << 1, 1 >>,
     y |-> << block_shape[1], block_shape[2] >>,
     x |-> << block_shape[1], block_shape[2] >>,
     c |-> << 100, 100 >>]

\* tuple(blockDims[k][1] for k in axisOrder): the second entry of each
\* pair, in the image's axis order.
blockShape(blockDims, order) ==
    [i \in 1 .. Len(order) |-> blockDims[order[i]][2]]

\* setup_inference(): (blockShapeX, blockShapeY, blockShapeZ)
setup_inference(img, block_shape) ==
    << blockShape(blockDimsX(block_shape), axisOrder(img)),
       blockShape(blockDimsY(block_shape), axisOrder(img)),
       blockShape(blockDimsZ(block_shape), axisOrder(img)) >>

\* OpBlockShape.setupOutputs() of lane `pos`, with a factory that answers
\* determineBlockShape with train_shape for training and with
\* inference_shape for inference.
OpBlockShape_setupOutputs(pos, train_shape, inference_shape) ==
    /\ pos < Len(InputImages)
    /\ ready(InputImages[pos + 1])
    /\ last' = Called("setupOutputs", << pos, train_shape, inference_shape >>,
                      [BlockShapeTrain |->
                          setup_train(InputImages[pos + 1].image,
                                      train_shape),
                       BlockShapeInference |->
                          setup_inference(InputImages[pos + 1].image,
                                          inference_shape)])
    /\ UNCHANGED << laneVars, nameVars, flagVars, classifier_cache >>

\* ------------------------------------------------ the state after __init__

\* A constructor that leaves predictions released.
FreezePredictionsReleased == FALSE

\* self.FreezePredictions.setValue(True)
FreezePredictionsDefault == TRUE

Init ==
    /\ InputImages = << >>
    /\ LabelInputs = << >>
    /\ Bookmarks = << >>
    /\ LabelImages = << >>
    /\ NonzeroLabelBlocks = << >>
    /\ PredictionProbabilities = << >>
    /\ CachedPredictionProbabilities = << >>
    /\ PredictionProbabilityChannels = << >>
    /\ nextLane = 1
    /\ FreezePredictions = FreezePredictionsDefault
    /\ frozenRead = NoRead
    /\ editedWhileFrozen = FALSE
    /\ numImports = 0
    /\ inFlight = Idle
    /\ LabelNames = << >>
    /\ LabelColors = << >>
    /\ PmapColors = << >>
    /\ NumClasses = Unset
    /\ opTrain_MaxLabel = Unset
    /\ opPredictionPipeline_NumClasses = Unset
    /\ classifier_cache = [value |-> Nothing, dirty |-> TRUE]
    /\ last = Called("init", << >>, OK)

\* ------------------------------------- specification: the lane lifecycle

\* Lanes are added and removed, and the GUI stores bookmarks.
Next ==
    \/ \E laneIndex \in 0 .. MaxAdds : addLane(laneIndex)
    \/ \E laneIndex \in 0 .. MaxAdds - 1, finalLength \in 0 .. MaxAdds :
            removeLane(laneIndex, finalLength)
    \/ \E pos \in 0 .. MaxAdds - 1, value \in BookmarkValues :
            SetBookmarks(pos, value)

Spec == Init /\ [][Next]_vars

\* Lanes are added and removed, bookmarks set, and InputImages shrinks.
NextResize ==
    \/ \E laneIndex \in 0 .. MaxAdds : addLane(laneIndex)
    \/ \E laneIndex \in 0 .. MaxAdds - 1, finalLength \in 0 .. MaxAdds :
            removeLane(laneIndex, finalLength)
    \/ \E pos \in 0 .. MaxAdds - 1, value \in BookmarkValues :
            SetBookmarks(pos, value)
    \/ \E size \in 0 .. MaxAdds - 1 : resizeInputImages(size)

SpecResize == Init /\ [][NextResize]_vars

\* Lanes are added and removed, and get bookmarks and an image.
NextLanes ==
    \/ \E laneIndex \in 0 .. MaxAdds : addLane(laneIndex)
    \/ \E laneIndex \in 0 .. MaxAdds - 1, finalLength \in 0 .. MaxAdds :
            removeLane(laneIndex, finalLength)
    \/ \E pos \in 0 .. MaxAdds - 1 : SetBookmarks(pos, << "bm" >>)
    \/ \E pos \in 0 .. MaxAdds - 1 : AssignImage(pos, ImgYXC1)

SpecLanes == Init /\ [][NextLanes]_vars

\* Lanes are added and removed, and their images become ready and unready.
NextImages ==
    \/ \E laneIndex \in 0 .. MaxAdds : addLane(laneIndex)
    \/ \E laneIndex \in 0 .. MaxAdds - 1, finalLength \in 0 .. MaxAdds :
            removeLane(laneIndex, finalLength)
    \/ \E pos \in 0 .. MaxAdds - 1, img \in Images : AssignImage(pos, img)
    \/ \E pos \in 0 .. MaxAdds - 1 : ClearImage(pos)

SpecImages == Init /\ [][NextImages]_vars

\* ------------------------------- specification: labelling and predicting

\* The pipeline with one lane whose image is ready: the state after
\* addLane(0) and the lane's image becoming ready.
InitOneLane ==
    /\ InputImages = << [lane |-> 1, index |-> 0, image |-> ImgYXC1] >>
    /\ LabelInputs = << [lane |-> 1, shape |-> LabelShape(ImgYXC1)] >>
    /\ Bookmarks = << [lane |-> 1, value |-> << >>] >>
    /\ LabelImages = << [lane |-> 1, data |-> EmptyVolume] >>
    /\ NonzeroLabelBlocks = << 1 >>
    /\ PredictionProbabilities = << 1 >>
    /\ CachedPredictionProbabilities =
          << [lane |-> 1, value |-> Nothing, dirty |-> TRUE] >>
    /\ PredictionProbabilityChannels = << 1 >>
    /\ nextLane = 2
    /\ FreezePredictions = TRUE
    /\ frozenRead = NoRead
    /\ editedWhileFrozen = FALSE
    /\ numImports = 0
    /\ inFlight = Idle
    /\ LabelNames = << >>
    /\ LabelColors = << >>
    /\ PmapColors = << >>
    /\ NumClasses = Unset
    /\ opTrain_MaxLabel = Unset
    /\ opPredictionPipeline_NumClasses = Unset
    /\ classifier_cache = [value |-> Nothing, dirty |-> TRUE]
    /\ last = Called("assignImage", << 0 >>, OK)

\* The pipeline with two lanes whose images are ready: the state after
\* addLane(0), addLane(1) and both images becoming ready.
InitTwoLanes ==
    /\ InputImages = << [lane |-> 1, index |-> 0, image |-> ImgYXC1],
                        [lane |-> 2, index |-> 1, image |-> ImgYXC1] >>
    /\ LabelInputs = << [lane |-> 1, shape |-> LabelShape(ImgYXC1)],
                        [lane |-> 2, shape |-> LabelShape(ImgYXC1)] >>
    /\ Bookmarks = << [lane |-> 1, value |-> << >>],
                      [lane |-> 2, value |-> << >>] >>
    /\ LabelImages = << [lane |-> 1, data |-> EmptyVolume],
                        [lane |-> 2, data |-> EmptyVolume] >>
    /\ NonzeroLabelBlocks = << 1, 2 >>
    /\ PredictionProbabilities = << 1, 2 >>
    /\ CachedPredictionProbabilities =
          << [lane |-> 1, value |-> Nothing, dirty |-> TRUE],
             [lane |-> 2, value |-> Nothing, dirty |-> TRUE] >>
    /\ PredictionProbabilityChannels = << 1, 2 >>
    /\ nextLane = 3
    /\ FreezePredictions = TRUE
    /\ frozenRead = NoRead
    /\ editedWhileFrozen = FALSE
    /\ numImports = 0
    /\ inFlight = Idle
    /\ LabelNames = << >>
    /\ LabelColors = << >>
    /\ PmapColors = << >>
    /\ NumClasses = Unset
    /\ opTrain_MaxLabel = Unset
    /\ opPredictionPipeline_NumClasses = Unset
    /\ classifier_cache = [value |-> Nothing, dirty |-> TRUE]
    /\ last = Called("assignImage", << 1 >>, OK)

\* Voxels of two lanes are written, label classes are merged and cleared,
\* and the GUI names label classes.
NextStore ==
    \/ \E pos \in {0, 1}, v \in Voxels, value \in StoreValues :
            setLabel(pos, v, value)
    \/ \E from_label \in ClassIds :
         \E into_label \in ClassIds \ {from_label} :
            mergeLabels(from_label, into_label)
    \/ \E label_value \in ClassIds : clearLabel(label_value)
    \/ \E names \in UserNames : SetLabelNames(names)

SpecStore == InitTwoLanes /\ [][NextStore]_vars

\* Block shapes: the image of a lane is replaced by images of several axis
\* orders and extents, and the block shapes are set up for factories with
\* several tile preferences.
NextBlockShape ==
    \/ ClearImage(0)
    \/ \E img \in ShapeImages : AssignImage(0, img)
    \/ \E train_shape \in Tiles, inference_shape \in Tiles :
          OpBlockShape_setupOutputs(0, train_shape, inference_shape)

SpecBlockShape == InitOneLane /\ [][NextBlockShape]_vars

\* The largest position and final size of a call on a multi-level slot.
MaxSlots == 3

\* The two multi-level input slots with their mutual callbacks: a sub-slot
\* is inserted into or removed from either of them, and the calls the
\* notifications cause run one by one.
NextNotify ==
    \/ \E slot \in {"InputImages", "LabelInputs"},
          op \in {"insertSlot", "removeSlot"},
          position \in 0 .. MaxSlots, finalsize \in 0 .. MaxSlots :
          SlotRequest(slot, op, position, finalsize)
    \/ SlotCallRuns

SpecNotify == Init /\ [][NextNotify]_vars

\* A call that is pending runs: the callbacks are called synchronously.
SpecNotifyFair == SpecNotify /\ WF_vars(SlotCallRuns)

\* The pipeline from its construction on, with up to two lanes at a time:
\* lanes are added and removed, images become ready, labels are painted
\* and imported in the first lane, merged and cleared in all, and
\* predictions are frozen and released.
NextFreeze ==
    \/ \E laneIndex \in 0 .. 2 :
          Len(InputImages) < 2 /\ addLane(laneIndex)
    \/ \E laneIndex \in 0 .. 1, finalLength \in 0 .. 2 :
          removeLane(laneIndex, finalLength)
    \/ \E pos \in 0 .. 1 : AssignImage(pos, ImgYXC1)
    \/ \E value \in PaintValues : setLabel(0, 1, value)
    \/ mergeLabels(1, 2)
    \/ clearLabel(1)
    \/ \E vol \in { w \in ImportVolumes : w[1] <= 2 } : importLabels(0, vol)
    \/ \E value \in BOOLEAN : SetFreeze(value)

SpecFreeze == Init /\ [][NextFreeze]_vars

\* Labels are painted, label classes come and go, predictions are frozen
\* and unfrozen, and the classifier and the predictions are read.
NextCache ==
    \/ \E v \in Voxels, value \in PaintValues : setLabel(0, v, value)
    \/ \E value \in BOOLEAN : SetFreeze(value)
    \/ \E names \in UserNames : SetLabelNames(names)
    \/ ReadClassifier
    \/ ReadPrediction(0)
    \/ ReadCachedPrediction(0)

SpecCache == InitOneLane /\ [][NextCache]_vars

\* ======================================================== lane claims

Channels(entry) == Extent(getTaggedShape(entry.image), "c")

\* Number of axes of the lane's image, not counting a time axis.
Dimensionality(entry) == Len(DelT(getTaggedShape(entry.image)))

ReadyLanes == { i \in 1 .. Len(InputImages) : ready(InputImages[i]) }

SameConstraints(a, b) ==
    /\ Channels(a) = Channels(b)
    /\ Dimensionality(a) = Dimensionality(b)

\* C1: after any sequence of addLane and removeLane calls (and of images
\* becoming ready in between), InputImages, LabelInputs, Bookmarks,
\* LabelImages, NonzeroLabelBlocks and the prediction outputs have the same
\* length, and position i of each belongs to the same lane.
C1_LanesInSync ==
    LET lanes == Lanes(InputImages) IN
    /\ Lanes(LabelInputs) = lanes
    /\ Lanes(Bookmarks) = lanes
    /\ Lanes(LabelImages) = lanes
    /\ NonzeroLabelBlocks = lanes
    /\ PredictionProbabilities = lanes
    /\ Lanes(CachedPredictionProbabilities) = lanes
    /\ PredictionProbabilityChannels = lanes

\* C2: addLane(index) succeeds only when index equals the lane count; on
\* success the lane count grows by exactly one and the new lane's bookmark
\* list is empty; otherwise the call fails with an assertion and no slot
\* is resized.
C2_AddLane ==
    [][last'.op = "addLane" =>
        IF last'.result = OK
        THEN /\ last'.args[1] = Len(InputImages)
             /\ Len(InputImages') = Len(InputImages) + 1
             /\ Len(Bookmarks') = Len(InputImages')
             /\ Bookmarks'[Len(InputImages')].value = << >>
        ELSE /\ last'.result = AssertionError
             /\ last'.args[1] # Len(InputImages)
             /\ UNCHANGED laneVars]_vars

\* A second lane has been appended to a lane that holds bookmarks.
C2_Witness ==
    /\ last = Called("addLane", << 1 >>, OK)
    /\ Len(InputImages) = 2
    /\ Bookmarks[1].value = << "bm" >>
    /\ Bookmarks[2].value = << >>

\* C3: giving a lane an image whose channel count differs from that of the
\* existing (ready) lanes raises DatasetConstraintError, and the rejection
\* leaves the lane count unchanged.  Stated on the call: an image is never
\* accepted next to a ready lane with another channel count.
C3_MismatchRejected ==
    [][last'.op = "assignImage" =>
        LET pos == last'.args[1] + 1 IN
        /\ last'.result = OK =>
              \A j \in 1 .. Len(InputImages') :
                  (j # pos /\ ready(InputImages'[j])) =>
                      Channels(InputImages'[j]) = Channels(InputImages'[pos])
        /\ last'.result # OK => Len(InputImages') = Len(InputImages)]_vars

\* C4: checkConstraints(laneIndex) on a ready lane fails with
\* DatasetConstraintError whenever the lane's channel count or its
\* dimensionality differs from that of an existing ready lane; it does not
\* fail when the lane is not ready or is the only ready lane.
C4_CheckConstraints ==
    \A i \in 1 .. Len(InputImages) :
        LET result == checkConstraints(InputImages, i - 1)
            others == ReadyLanes \ {i}
        IN /\ (ready(InputImages[i]) /\
                \E j \in others :
                    ~SameConstraints(InputImages[i], InputImages[j]))
                  => result = DatasetConstraintError
           /\ (~ready(InputImages[i]) \/ others = {}) => result = OK

\* C5: in every reachable state all ready lanes have the same channel
\* count and the same dimensionality excluding the time axis.
C5_ReadyLanesAgree ==
    \A i \in ReadyLanes, j \in ReadyLanes :
        SameConstraints(InputImages[i], InputImages[j])

\* Label names, colors and imports on one lane.
NextLabels ==
    \/ \E vol \in ImportVolumes : importLabels(0, vol)
    \/ \E names \in UserNames : SetLabelNames(names)
    \/ \E colors \in UserColors : SetLabelColors(colors)
    \/ \E colors \in UserColors : SetPmapColors(colors)

SpecLabels == InitOneLane /\ [][NextLabels]_vars

\* C11: whenever InputImages is resized to length 0, Bookmarks,
\* LabelImages, NonzeroLabelBlocks, PredictionProbabilities,
\* CachedPredictionProbabilities and PredictionProbabilityChannels have
\* length 0 once the resize notification has been handled.
C11_EmptyInLockstep ==
    [][(last'.op = "resizeInputImages" /\ Len(InputImages') = 0)
          => /\ Len(Bookmarks') = 0
             /\ Len(LabelImages') = 0
             /\ Len(NonzeroLabelBlocks') = 0
             /\ Len(PredictionProbabilities') = 0
             /\ Len(CachedPredictionProbabilities') = 0
             /\ Len(PredictionProbabilityChannels') = 0]_vars

\* A pipeline that had at least two lanes was resized to empty.
C11_Witness ==
    /\ last.op = "resizeInputImages"
    /\ last.args = << 0 >>
    /\ nextLane >= 3
    /\ InputImages = << >>
    /\ Bookmarks = << >>

\* The multi-slot s without its sub-slot at (0-based) position i.
WithoutPosition(s, i) ==
    [j \in 1 .. (Len(s) - 1) |-> IF j <= i THEN s[j] ELSE s[j + 1]]

\* The removeLane step removes exactly the lane at position i: every
\* multi-lane slot loses that sub-slot, and the image, label store and
\* bookmarks of the other lanes keep their order and content.
RemovesExactly(i) ==
    /\ InputImages' = WithoutPosition(InputImages, i)
    /\ LabelInputs' = WithoutPosition(LabelInputs, i)
    /\ Bookmarks' = WithoutPosition(Bookmarks, i)
    /\ LabelImages' = WithoutPosition(LabelImages, i)
    /\ NonzeroLabelBlocks' = WithoutPosition(NonzeroLabelBlocks, i)
    /\ PredictionProbabilities' = WithoutPosition(PredictionProbabilities, i)
    /\ Lanes(CachedPredictionProbabilities') =
          WithoutPosition(Lanes(CachedPredictionProbabilities), i)
    /\ PredictionProbabilityChannels' =
          WithoutPosition(PredictionProbabilityChannels, i)

\* C12: every removeLane(i, n) removes exactly the lane at
\* position i and preserves the order and content of the others.
C12_AlwaysRemoves ==
    [][last'.op = "removeLane" => RemovesExactly(last'.args[1])]_vars

\* ====================================================== cache claims

PredictionReads == {"readPrediction", "readCachedPrediction"}

\* C6: while FreezePredictions is true, a read of the cached prediction
\* output taken after label edits returns exactly what the read taken
\* before those edits returned, and neither the classifier cache nor the
\* prediction cache is refreshed while frozen.
C6_FrozenReadsRepeat ==
    [][/\ (last'.op = "readCachedPrediction" /\ last'.reread)
            => last'.result = frozenRead.value
       /\ (FreezePredictions /\ FreezePredictions')
            => /\ classifier_cache'.value = classifier_cache.value
               /\ \A i \in 1 .. Len(CachedPredictionProbabilities) :
                     CachedPredictionProbabilities'[i].value \in
                        {CachedPredictionProbabilities[i].value, Nothing}]_vars

\* A frozen read repeats, after label edits, a read that returned
\* probability maps of a classifier trained on other labels.
C6_Witness ==
    /\ last.op = "readCachedPrediction"
    /\ last.reread
    /\ FreezePredictions
    /\ last.result.kind = "pmap"
    /\ last.result.classifier.labels # TrainingLabels

\* C7: if labels are edited while frozen and FreezePredictions is then set
\* to false, the next prediction read returns results computed with a
\* classifier trained on the post-edit label set.
C7_UnfrozenReadIsFresh ==
    [][(last'.op \in PredictionReads /\ last'.afterFrozenEdits)
          => last'.result = Predict(Train, last'.args[1])]_vars

\* The first read after unfreezing retrains on labels painted while frozen.
C7_Witness ==
    /\ last.op = "readCachedPrediction"
    /\ last.afterFrozenEdits
    /\ last.trained = 1
    /\ last.result.kind = "pmap"
    /\ last.result.classifier.labels = TrainingLabels
    /\ TrainingLabels[1] # EmptyVolume

\* C8: with the freeze flag false the cached classifier is retrained
\* lazily: a change of the labels or of maxLabelId marks it stale without
\* training, the next read of the classifier trains exactly once, and
\* further reads with no change in between return the cached instance
\* without retraining.
C8_LazyRetraining ==
    [][/\ (\/ last'.op = "setLabel"
           \/ (last'.op = "setLabelNames" /\
                  opTrain_MaxLabel' # opTrain_MaxLabel))
            => /\ classifier_cache'.dirty
               /\ classifier_cache'.value = classifier_cache.value
               /\ last'.trained = 0
       /\ (last'.op = "readClassifier" /\ ~FreezePredictions)
            => /\ last'.trained = IF classifier_cache.dirty THEN 1 ELSE 0
               /\ ~classifier_cache'.dirty
               /\ last'.result = classifier_cache'.value
               /\ classifier_cache.dirty => last'.result = Train
               /\ ~classifier_cache.dirty =>
                     classifier_cache' = classifier_cache]_vars

\* A second read of the classifier, with no change in between, is served
\* from the cache.
C8_Witness ==
    /\ last.op = "readClassifier"
    /\ ~FreezePredictions
    /\ last.trained = 0
    /\ last.result.kind = "classifier"
    /\ last.result.labels = TrainingLabels
    /\ TrainingLabels[1] # EmptyVolume

\* No label class exists: LabelNames is empty and the class count is set.
NoLabelClass == LabelNames = << >> /\ opTrain_MaxLabel # Unset

\* C9: when maxLabelId is 0 (no label class exists), training yields the
\* "no classifier" sentinel without invoking the classifier factory, and
\* once it has, every prediction read returns the neutral all-zero volume
\* with a channel for each of the (zero) classes.
C9_SentinelGivesZeros ==
    [][(NoLabelClass /\ last'.op \in PredictionReads \cup {"readClassifier"})
          => /\ last'.trained = 1 =>
                   /\ last'.factory = 0
                   /\ classifier_cache' =
                         [value |-> NoClassifier, dirty |-> FALSE]
             /\ (last'.op \in PredictionReads /\
                   classifier_cache' = [value |-> NoClassifier, dirty |-> FALSE])
                   => /\ last'.result.kind = "zeros"
                      /\ last'.result.numClasses = 0]_vars

\* With labels painted but no label class left, a read trains, gets the
\* sentinel without a factory call, and returns zeros.
C9_Witness ==
    /\ last.op = "readCachedPrediction"
    /\ ~FreezePredictions
    /\ NoLabelClass
    /\ last.trained = 1
    /\ last.factory = 0
    /\ last.result.kind = "zeros"
    /\ TrainingLabels[1] # EmptyVolume

\* ====================================================== store claims

\* The blocks of a label store with a voxel that holds a label: a value
\* other than 0 and other than the eraser value 100.
LabelledBlocks(data) ==
    { BlockOf(v) : v \in { u \in Voxels : data[u] \notin {0, 100} } }

\* C13: after any sequence of setLabel calls on a lane (values 0, the
\* eraser value 100, or a class id) a written voxel holds the class id, or
\* nothing if 0 or the eraser value was written, the other voxels are as
\* before, and nonzeroBlocks() is exactly the set of blocks with at least
\* one voxel holding a non-zero, non-eraser label.
C13_NonzeroBlocks ==
    [][last'.op = "setLabel" =>
         LET pos == last'.args[1]
             v == last'.args[2]
             value == last'.args[3]
             before == LabelImages[pos + 1].data
             after == LabelImages'[pos + 1].data
         IN /\ after[v] = IF value \in {0, 100} THEN 0 ELSE value
            /\ \A u \in Voxels \ {v} : after[u] = before[u]
            /\ \A p \in 1 .. Len(LabelImages) :
                  /\ p # pos + 1 => LabelImages'[p] = LabelImages[p]
                  /\ nonzeroBlocks(LabelImages'[p].data) =
                        LabelledBlocks(LabelImages'[p].data)]_vars

\* The eraser value was written to a voxel of a block whose other voxel is
\* labelled, while the other block was erased to empty.
C13_Witness ==
    /\ last.op = "setLabel"
    /\ last.args = << 0, 1, 100 >>
    /\ LabelImages[1].data[1] = 0
    /\ LabelImages[1].data[2] = 2
    /\ nonzeroBlocks(LabelImages[1].data) = {1}
    /\ nonzeroBlocks(LabelImages[2].data) = {2}

\* C14: after mergeLabels(from, into) returns, in every lane no voxel holds
\* the value from, every voxel that held from now holds into, and every
\* other voxel is unchanged.
C14_MergeRewrites ==
    [][last'.op = "mergeLabels" =>
         LET from == last'.args[1]
             into == last'.args[2]
         IN /\ Len(LabelImages') = Len(LabelImages)
            /\ \A p \in 1 .. Len(LabelImages), v \in Voxels :
                  LET before == LabelImages[p].data[v]
                      after == LabelImages'[p].data[v]
                  IN /\ after # from
                     /\ before = from => after = into
                     /\ before # from => after = before]_vars

\* Label 1 was merged into label 2 where both lanes held labels.
C14_Witness ==
    /\ last.op = "mergeLabels"
    /\ last.args = << 1, 2 >>
    /\ LabelImages[1].data[1] = 2
    /\ LabelImages[1].data[2] = 2
    /\ LabelImages[2].data[NumVoxels] = 2

\* C15: mergeLabels(a, b) never creates a new nonzero block: in every lane
\* the nonzero-block set after the merge contains no block that was outside
\* the set before the merge, and it contains every block that was in it
\* and held a label other than a.
C15_MergeKeepsBlocks ==
    [][last'.op = "mergeLabels" =>
         LET a == last'.args[1] IN
         \A p \in 1 .. Len(LabelImages) :
            LET before == LabelImages[p].data
                after == LabelImages'[p].data
            IN /\ nonzeroBlocks(after) \subseteq nonzeroBlocks(before)
               /\ \A v \in Voxels :
                     before[v] \notin {0, a} =>
                        BlockOf(v) \in nonzeroBlocks(after)]_vars

\* After a merge of label 1 into label 2 one lane has labels in its first
\* block only and the other lane still has no nonzero block.
C15_Witness ==
    /\ last.op = "mergeLabels"
    /\ last.args = << 1, 2 >>
    /\ LabelImages[1].data[1] = 2
    /\ nonzeroBlocks(LabelImages[1].data) = {1}
    /\ nonzeroBlocks(LabelImages[2].data) = {}

\* The label stores a clearLabel(id) call leaves when it starts from the
\* stores `images`.
ClearedAgain(images, id) ==
    [p \in 1 .. Len(images) |->
        [images[p] EXCEPT !.data = clearedData(@, id)]]

\* C16: clearLabel(id) is idempotent: after it no voxel of any lane holds
\* id, it leaves the label-class lists as they were, and a second
\* clearLabel(id) in a row leaves every lane's label store and nonzero-block
\* set (and the label-class lists) as the first call left them.
C16_ClearIdempotent ==
    [][last'.op = "clearLabel" =>
         LET id == last'.args[1] IN
         /\ \A p \in 1 .. Len(LabelImages'), v \in Voxels :
               LabelImages'[p].data[v] # id
         /\ UNCHANGED nameVars
         /\ ClearedAgain(LabelImages', id) = LabelImages'
         /\ \A p \in 1 .. Len(LabelImages') :
               nonzeroBlocks(ClearedAgain(LabelImages', id)[p].data) =
                  nonzeroBlocks(LabelImages'[p].data)]_vars

\* Label 1 was cleared in two lanes that keep voxels of label 2, with two
\* label classes named.
C16_Witness ==
    /\ last.op = "clearLabel"
    /\ last.args = << 1 >>
    /\ LabelNames = << "a", "b" >>
    /\ LabelImages[1].data[1] = 2
    /\ LabelImages[2].data[2] = 2
    /\ LabelImages[1].data[2] = 0

\* C17: a merge removes the source id from the active set of label
\* classes (the label-class list shrinks by the merged id and the ids in
\* the stores stay contiguous from 1), whereas a clear leaves the id's slot
\* in the label-class list.
C17_MergeShrinksClearKeeps ==
    [][/\ (last'.op = "mergeLabels" /\ last'.args[1] <= Len(LabelNames))
            => /\ Len(LabelNames') = Len(LabelNames) - 1
               /\ \A p \in 1 .. Len(LabelImages'), v \in Voxels :
                     LabelImages'[p].data[v] <= Len(LabelNames')
       /\ last'.op = "clearLabel" => LabelNames' = LabelNames]_vars

\* ===================================================== import claims

\* ------------------------------------------------------ block shape claims

\* The positions of the axis `key` in a tagged image.
AxisAt(img, key) == { i \in 1 .. Len(img) : img[i][1] = key }

\* C21: the training block shape has one extent per axis of the image, and
\* extent 1 at the channel axis and at the time axis.
C21_TrainShapePerAxis ==
    [][last'.op = "setupOutputs" =>
         LET img == InputImages[last'.args[1] + 1].image
             shape == last'.result.BlockShapeTrain
         IN /\ Len(shape) = Len(img)
            /\ \A i \in AxisAt(img, "c") \cup AxisAt(img, "t") :
                  shape[i] = 1]_vars

\* C22: the inference block shape is a triple of tuples with one extent
\* per image axis; the first is 1 along x, the second 1 along y, the third
\* 1 along z, each has an extent of the classifier's tile (the second one)
\* along the other spatial axes, and all three are 1 along t.
C22_InferenceShapes ==
    [][last'.op = "setupOutputs" =>
         LET img == InputImages[last'.args[1] + 1].image
             tile == last'.args[3]
             shapes == last'.result.BlockShapeInference
             thin == << "x", "y", "z" >>
         IN /\ Len(shapes) = 3
            /\ \A n \in 1 .. 3 :
                  /\ Len(shapes[n]) = Len(img)
                  /\ \A i \in AxisAt(img, thin[n]) \cup AxisAt(img, "t") :
                        shapes[n][i] = 1
                  /\ \A k \in {"x", "y", "z"} \ {thin[n]} :
                        \A i \in AxisAt(img, k) : shapes[n][i] = tile[2]]_vars

\* The block shapes of a five-axis image with time and depth were set up
\* for a classifier whose tile is not square.
C22_Witness ==
    /\ last.op = "setupOutputs"
    /\ Len(InputImages) > 0
    /\ ready(InputImages[1])
    /\ axisOrder(InputImages[1].image) = << "t", "z", "y", "x", "c" >>
    /\ last.args[3] = << 2, 3 >>
    /\ last.result.BlockShapeInference =
          << << 1, 3, 3, 1, 100 >>, << 1, 3, 1, 3, 100 >>,
             << 1, 1, 3, 3, 100 >> >>

\* --------------------------------------------------------- freeze claims

\* C23: FreezePredictions is true in the state after construction, and
\* only a step that sets it explicitly changes it, to the value it is set
\* to; no lane, label or import operation changes it.
C23_FrozenUntilReleased ==
    /\ FreezePredictions = TRUE
    /\ [][FreezePredictions' # FreezePredictions =>
            /\ last'.op = "setFreeze"
            /\ last'.args = << FreezePredictions' >>]_vars

\* Predictions are still frozen after a lane was added and removed, an
\* image became ready, and labels were imported and then merged.
C23_Witness ==
    /\ FreezePredictions
    /\ nextLane > 2
    /\ Len(InputImages) = 1
    /\ numImports > 0
    /\ Len(LabelNames) > 0
    /\ last.op = "mergeLabels"

\* C24: after every change of LabelNames, by the GUI or by importLabels,
\* the NumClasses output, the trainer's MaxLabel and the prediction
\* pipeline's NumClasses all hold the length of LabelNames.
C24_ClassCountFollowsNames ==
    [][LabelNames' # LabelNames =>
         /\ NumClasses' = << Len(LabelNames') >>
         /\ opTrain_MaxLabel' = << Len(LabelNames') >>
         /\ opPredictionPipeline_NumClasses' = << Len(LabelNames') >>]_vars

\* importLabels has extended names the GUI had set, and the three class
\* counts hold the new length.
C24_Witness ==
    /\ last.op = "importLabels"
    /\ Len(LabelNames) = 5
    /\ LabelNames[1] = "a"
    /\ NumClasses = << 5 >>
    /\ opTrain_MaxLabel = << 5 >>
    /\ opPredictionPipeline_NumClasses = << 5 >>

\* ---------------------------------------------------- notification claims

\* The lanes of a slot after `count` sub-slots, numbered from `lane` on in
\* the order of their insertion, were inserted at the position of the
\* request one after the other, or after `count` sub-slots were removed
\* there.
RECURSIVE LanesAfter(_, _, _, _)
LanesAfter(request, lanes, lane, count) ==
    IF count = 0 THEN lanes
    ELSE LanesAfter(request,
                    IF request.op = "insertSlot"
                    THEN InsertAt(lanes, request.position + 1, lane)
                    ELSE RemoveAt(lanes, request.position + 1),
                    lane + 1, count - 1)

SizeAfter(request, size) ==
    IF request.op = "insertSlot"
    THEN (IF size >= request.finalsize THEN size ELSE request.finalsize)
    ELSE IF size <= request.finalsize THEN size
    ELSE IF request.position >= size THEN size
    ELSE IF request.position > request.finalsize THEN request.position
    ELSE request.finalsize

C26_CheckedAtCurrentPosition ==
    [][last'.op = "assignImage" =>
         LET pos == last'.args[1]
             lane == InputImages[pos + 1].lane
         IN /\ handleInputReadyIndex(InputImages, pos) = pos
            /\ \E img \in Images :
                  last'.result =
                     checkConstraints(
                        [InputImages EXCEPT ![pos + 1].image = img], pos)
            /\ last'.result = OK =>
                  /\ ready(InputImages'[pos + 1])
                  /\ LabelInputs'[pos + 1] =
                        [lane |-> lane,
                         shape |-> LabelShape(InputImages'[pos + 1].image)]]_vars

\* C27: if LabelNames, LabelColors and PmapColors have equal lengths before
\* importLabels, they have equal lengths after it returns, for every
\* largest label id of the imported volume, also one beyond the default
\* color table.
C27_ImportKeepsLengths ==
    [][(/\ last'.op = "importLabels"
        /\ Len(LabelNames) = Len(LabelColors)
        /\ Len(LabelNames) = Len(PmapColors))
          => /\ Len(LabelNames') = Len(LabelColors')
             /\ Len(LabelNames') = Len(PmapColors')]_vars

\* The names importLabels is to synthesize, by label id.
SynthesizedNames ==
    << "Label 1", "Label 2", "Label 3", "Label 4", "Label 5", "Label 6",
       "Label 7", "Label 8", "Label 9", "Label 10", "Label 11", "Label 12",
       "Label 13", "Label 14", "Label 15", "Label 16", "Label 17",
       "Label 18" >>

\* The largest label id of a volume.
LargestLabel(vol) ==
    CHOOSE m \in {vol[v] : v \in Voxels} : \A v \in Voxels : vol[v] <= m

\* C10: importLabels(lane, volume) with largest label new_max and old_max
\* label names: if new_max > old_max, LabelNames afterwards has length
\* new_max, its first old_max entries are unchanged and the entries
\* old_max+1..new_max are the names "Label k"; otherwise LabelNames,
\* LabelColors and PmapColors are left unchanged.
C10_ImportLabelsNames ==
    [][last'.op = "importLabels" =>
         LET new_max == LargestLabel(last'.args[2])
             old_max == Len(LabelNames)
         IN IF new_max > old_max
            THEN /\ Len(LabelNames') = new_max
                 /\ SubSeq(LabelNames', 1, old_max) = LabelNames
                 /\ \A k \in (old_max + 1) .. new_max :
                       LabelNames'[k] = SynthesizedNames[k]
            ELSE /\ LabelNames' = LabelNames
                 /\ LabelColors' = LabelColors
                 /\ PmapColors' = PmapColors]_vars

\* A volume with largest label 5 was imported into a pipeline that had
\* two label classes.
C10_Witness ==
    /\ last.op = "importLabels"
    /\ LargestLabel(last.args[2]) = 5
    /\ LabelNames = << "a", "b", "Label 3", "Label 4", "Label 5" >>

====
